---- MODULE Spec2Model ----
(***************************************************************************)
(* Model of geertsma_disk.py: the displacement and stress fields of a      *)
(* disk-shaped reservoir (Geertsma's model), evaluated point by point.     *)
(*                                                                         *)
(* Numbers.  The program computes in IEEE-754 binary floating point        *)
(* (numpy float64).  The model keeps that arithmetic: every operation      *)
(* returns the exact result rounded to nearest, ties to even, and the      *)
(* special values inf and nan follow the IEEE rules.  The significand has  *)
(* Prec bits instead of 53; the exponent range is not bounded (no          *)
(* overflow or underflow) and the sign of zero is not kept.                *)
(* A finite number is [k |-> "fin", n, e] with value n * 2^e, n odd or     *)
(* n = 0 and e = 0, so that equal numbers are equal records.               *)
(***************************************************************************)
EXTENDS Integers, Sequences, FiniteSets, TLC

\* Bits of the significand (53 in float64).
Prec == 5

----------------------------------------------------------------------------
\* Integer helpers

Pow2(k) == IF k <= 0 THEN 1 ELSE 2 ^ k

IAbs(n) == IF n < 0 THEN -n ELSE n

ISgn(n) == IF n < 0 THEN -1 ELSE IF n = 0 THEN 0 ELSE 1

IMin(a, b) == IF a < b THEN a ELSE b

IMax(a, b) == IF a < b THEN b ELSE a

\* number of bits of n > 0
BitLen(n) ==
    IF n < 65536
    THEN (IF n < 256
          THEN (IF n < 16
                THEN (IF n < 4 THEN (IF n < 2 THEN (IF n < 1 THEN 0 ELSE 1) ELSE 2)
                      ELSE (IF n < 8 THEN 3 ELSE 4))
                ELSE (IF n < 64 THEN (IF n < 32 THEN 5 ELSE 6)
                      ELSE (IF n < 128 THEN 7 ELSE 8)))
          ELSE (IF n < 4096
                THEN (IF n < 1024 THEN (IF n < 512 THEN 9 ELSE 10)
                      ELSE (IF n < 2048 THEN 11 ELSE 12))
                ELSE (IF n < 16384 THEN (IF n < 8192 THEN 13 ELSE 14)
                      ELSE (IF n < 32768 THEN 15 ELSE 16))))
    ELSE 16 + (IF n < 16777216
               THEN (IF n < 1048576
                     THEN (IF n < 262144 THEN (IF n < 131072 THEN 1 ELSE 2)
                           ELSE (IF n < 524288 THEN 3 ELSE 4))
                     ELSE (IF n < 4194304 THEN (IF n < 2097152 THEN 5 ELSE 6)
                           ELSE (IF n < 8388608 THEN 7 ELSE 8)))
               ELSE (IF n < 268435456
                     THEN (IF n < 67108864 THEN (IF n < 33554432 THEN 9 ELSE 10)
                           ELSE (IF n < 134217728 THEN 11 ELSE 12))
                     ELSE (IF n < 1073741824 THEN (IF n < 536870912 THEN 13 ELSE 14)
                           ELSE 15)))

\* floor of the square root of n >= 0, n < 4^b
RECURSIVE ISqrtFrom(_, _, _)
ISqrtFrom(n, b, acc) ==
    IF b < 0 THEN acc
    ELSE ISqrtFrom(n, b - 1, IF (acc + Pow2(b)) * (acc + Pow2(b)) <= n
                             THEN acc + Pow2(b) ELSE acc)

ISqrt(n) == ISqrtFrom(n, (BitLen(n) + 1) \div 2, 0)

----------------------------------------------------------------------------
\* Floating-point numbers

NaN == [k |-> "nan", n |-> 0, e |-> 0]
Inf(s) == [k |-> "inf", n |-> (IF s < 0 THEN -1 ELSE 1), e |-> 0]
Zero == [k |-> "fin", n |-> 0, e |-> 0]

\* n * 2^e with the factors of two moved into the exponent
RECURSIVE Norm(_, _)
Norm(n, e) ==
    IF n = 0 THEN Zero
    ELSE IF n % 2 = 0 THEN Norm(n \div 2, e + 1)
    ELSE [k |-> "fin", n |-> n, e |-> e]

\* n * 2^e rounded to Prec bits, to nearest, ties to even
RoundQuotient(s, q, rem, half, e) ==
    Norm(s * (IF rem > half \/ (rem = half /\ q % 2 = 1) THEN q + 1 ELSE q), e)

RoundBits(n, e, b) ==
    IF b <= 0 THEN Norm(n, e)
    ELSE RoundQuotient(ISgn(n), IAbs(n) \div Pow2(b), IAbs(n) % Pow2(b), Pow2(b - 1), e + b)

Round(n, e) == RoundBits(n, e, BitLen(IAbs(n)) - Prec)

\* (num / den) * 2^e rounded, den > 0: Prec + 2 quotient bits and a sticky bit
RoundRatShifted(s, a, den, e, sh) ==
    Round(s * (2 * ((a * Pow2(sh)) \div den) + (IF (a * Pow2(sh)) % den = 0 THEN 0 ELSE 1)),
          e - sh - 1)

RoundRat(num, den, e) ==
    IF num = 0 THEN Zero
    ELSE RoundRatShifted(ISgn(num), IAbs(num), den, e,
                         IMax(0, Prec + 2 + BitLen(den) - BitLen(IAbs(num))))

F(n) == Round(n, 0)          \* the integer n, rounded
Frac(n, k) == Norm(n, -k)    \* n / 2^k

IsNaN(x) == x.k = "nan"
IsInf(x) == x.k = "inf"
IsFin(x) == x.k = "fin"
IsZero(x) == x.k = "fin" /\ x.n = 0
Sgn(x) == ISgn(x.n)       \* -1, 0, 1; 0 for nan

Neg(x) == [x EXCEPT !.n = -x.n]
Abs(x) == [x EXCEPT !.n = IAbs(x.n)]

\* exact comparison of finite numbers: sign of x - y
\* sign of x - y for finite x, y of one sign with top bits at bx and by
CmpMagnitude(x, y, bx, by, m) ==
    IF bx # by THEN (IF bx > by THEN Sgn(x) ELSE -Sgn(x))
    ELSE ISgn(x.n * Pow2(x.e - m) - y.n * Pow2(y.e - m))

CmpFin(x, y) ==
    IF Sgn(x) # Sgn(y) THEN ISgn(Sgn(x) - Sgn(y))
    ELSE IF x.n = 0 THEN 0
    ELSE CmpMagnitude(x, y, BitLen(IAbs(x.n)) + x.e, BitLen(IAbs(y.n)) + y.e,
                      IMin(x.e, y.e))

\* x < y, false when either is nan
Lt(x, y) ==
    IF IsNaN(x) \/ IsNaN(y) THEN FALSE
    ELSE IF IsInf(x) THEN x.n < 0 /\ ~(IsInf(y) /\ y.n < 0)
    ELSE IF IsInf(y) THEN y.n > 0
    ELSE CmpFin(x, y) < 0

Le(x, y) == ~IsNaN(x) /\ ~IsNaN(y) /\ ~Lt(y, x)

\* x + y for finite nonzero x, y with top bits at bx and by: the smaller
\* one is absorbed when it lies below the rounding position of the larger
AddFin(x, y, bx, by, m) ==
    IF bx > by + Prec + 2 THEN x
    ELSE IF by > bx + Prec + 2 THEN y
    ELSE Round(x.n * Pow2(x.e - m) + y.n * Pow2(y.e - m), m)

Add(x, y) ==
    IF IsNaN(x) \/ IsNaN(y) THEN NaN
    ELSE IF IsInf(x) THEN (IF IsInf(y) /\ y.n # x.n THEN NaN ELSE x)
    ELSE IF IsInf(y) THEN y
    ELSE IF x.n = 0 THEN y
    ELSE IF y.n = 0 THEN x
    ELSE AddFin(x, y, BitLen(IAbs(x.n)) + x.e, BitLen(IAbs(y.n)) + y.e, IMin(x.e, y.e))

Sub(x, y) == Add(x, Neg(y))

Mul(x, y) ==
    IF IsNaN(x) \/ IsNaN(y) THEN NaN
    ELSE IF IsInf(x) \/ IsInf(y)
         THEN (IF x.n = 0 \/ y.n = 0 THEN NaN ELSE Inf(Sgn(x) * Sgn(y)))
    ELSE Round(x.n * y.n, x.e + y.e)

Div(x, y) ==
    IF IsNaN(x) \/ IsNaN(y) THEN NaN
    ELSE IF IsInf(x) THEN (IF IsInf(y) THEN NaN
                           ELSE Inf(IF y.n < 0 THEN -x.n ELSE x.n))
    ELSE IF IsInf(y) THEN Zero
    ELSE IF y.n = 0 THEN (IF x.n = 0 THEN NaN ELSE Inf(x.n))
    ELSE RoundRat(x.n * ISgn(y.n), IAbs(y.n), x.e - y.e)

\* sqrt(n) * 2^e: the integer root and a sticky bit, rounded
SqrtRooted(n, s, e) == Round(2 * s + (IF s * s = n THEN 0 ELSE 1), e)

SqrtScaled(n, e) == SqrtRooted(n, ISqrt(n), e)

Sqrt(x) ==
    IF IsNaN(x) \/ x.n < 0 THEN NaN
    ELSE IF IsInf(x) \/ x.n = 0 THEN x
    ELSE SqrtScaled((IF x.e % 2 # 0 THEN 2 * x.n ELSE x.n) * Pow2(2 * (Prec + 1)),
                    ((IF x.e % 2 # 0 THEN x.e - 1 ELSE x.e) \div 2) - (Prec + 1) - 1)

\* x**2 and x**3: the exact power, rounded once
Sq(x) == Mul(x, x)

Cube(x) ==
    IF IsNaN(x) THEN NaN
    ELSE IF IsInf(x) THEN x
    ELSE Round(x.n * x.n * x.n, 3 * x.e)

----------------------------------------------------------------------------
\* numpy and scipy.special, as far as the program uses them

One == F(1)
Two == F(2)
Half == Frac(1, 1)

\* np.pi: pi rounded to the format (355/113 agrees with pi to 2^-21)
Pi == RoundRat(355, 113, 0)
HalfPi == Div(Pi, Two)

\* np.sign: -1, 0 or 1, nan for nan
Sign(x) == IF IsNaN(x) THEN NaN ELSE F(Sgn(x))

\* np.heaviside(x, h0): 0 for x < 0, h0 for x = 0, 1 for x > 0, nan for nan
Heaviside(x, h0) ==
    IF IsNaN(x) THEN NaN
    ELSE IF x.n < 0 THEN Zero
    ELSE IF x.n = 0 THEN h0
    ELSE One

\* np.arcsin: nan outside [-1, 1], exact at -1, 0 and 1; in between, the
\* chord through these three values stands for the library's result.
ArcSin(x) ==
    IF IsNaN(x) \/ IsInf(x) THEN NaN
    ELSE IF Lt(One, Abs(x)) THEN NaN
    ELSE Mul(x, HalfPi)

\* ellipk with a finite value at m = 1
EllipKFiniteAtOne(m) ==
    IF IsNaN(m) THEN NaN
    ELSE IF IsInf(m) THEN (IF m.n < 0 THEN Zero ELSE NaN)
    ELSE IF Lt(One, m) THEN NaN
    ELSE IF m = One THEN F(8)
    ELSE Div(HalfPi, Sqrt(Sub(One, m)))

\* scipy.special.ellipk(m), complete elliptic integral of the first kind,
\* parameter m: pi/2 at 0, inf at 1, nan above 1. For the other m < 1 the
\* library's value is a finite positive number; (pi/2)/sqrt(1 - m) stands
\* for it.
EllipK(m) ==
    IF IsNaN(m) THEN NaN
    ELSE IF IsInf(m) THEN (IF m.n < 0 THEN Zero ELSE NaN)
    ELSE IF Lt(One, m) THEN NaN
    ELSE IF m = One THEN Inf(1)
    ELSE Div(HalfPi, Sqrt(Sub(One, m)))

\* scipy.special.ellipe(m), complete elliptic integral of the second kind:
\* pi/2 at 0, 1 at 1, nan above 1; the chord pi/2 - (pi/2 - 1) m stands for
\* the library's value elsewhere.
EllipE(m) ==
    IF IsNaN(m) THEN NaN
    ELSE IF IsInf(m) THEN (IF m.n < 0 THEN Inf(1) ELSE NaN)
    ELSE IF Lt(One, m) THEN NaN
    ELSE IF m = One THEN One
    ELSE Sub(HalfPi, Mul(Sub(HalfPi, One), m))

\* scipy.special.ellipkinc(phi, m), incomplete integral of the first kind:
\* 0 at phi = 0, ellipk(m) at phi = pi/2, nan for a nan argument or m > 1.
EllipKInc(phi, m) ==
    IF IsNaN(phi) \/ IsNaN(m) \/ IsInf(phi) \/ IsInf(m) THEN NaN
    ELSE IF Lt(One, m) THEN NaN
    ELSE IF IsZero(phi) THEN Zero
    ELSE IF m = One THEN Div(phi, Sub(HalfPi, Abs(phi)))
    ELSE Mul(Div(phi, HalfPi), EllipK(m))

\* scipy.special.ellipeinc(phi, m), incomplete integral of the second kind:
\* 0 at phi = 0, ellipe(m) at phi = pi/2, nan for a nan argument or m > 1.
EllipEInc(phi, m) ==
    IF IsNaN(phi) \/ IsNaN(m) \/ IsInf(phi) \/ IsInf(m) THEN NaN
    ELSE IF Lt(One, m) THEN NaN
    ELSE IF IsZero(phi) THEN Zero
    ELSE Mul(Div(phi, HalfPi), EllipE(m))

----------------------------------------------------------------------------
\* The kernels Int1 ... Int6 and the shear modulus

\* m = 4*R*r/(q**2 + (r+R)**2)
Modulus(q, r, R) ==
    Div(Mul(Mul(F(4), R), r), Add(Sq(q), Sq(Add(r, R))))

\* (1-m/2)*E0/(1-m)
EOverOneMinus(m, E0) ==
    Div(Mul(Sub(One, Div(m, Two)), E0), Sub(One, m))

\* R**2-r**2-q**2
RadiiTerm(q, r, R) == Sub(Sub(Sq(R), Sq(r)), Sq(q))

\* I1 = 2*((1-(m/2))*K - E0)/(np.pi*np.sqrt(m*r*R))
I1(r, R, m, K, E0) ==
    Div(Mul(Two, Sub(Mul(Sub(One, Div(m, Two)), K), E0)),
        Mul(Pi, Sqrt(Mul(Mul(m, r), R))))

\* K = ellipk(m), E0 = ellipe(m)
Int1At(r, R, m) == I1(r, R, m, EllipK(m), EllipE(m))

Int1(q, r, R) == Int1At(r, R, Modulus(q, r, R))

\* I2 = q*np.sqrt(m)*((1-m/2)*E0/(1-m) - K)/(2*np.pi*np.sqrt(r*R)**3)
I2(q, r, R, m, K, E0) ==
    Div(Mul(Mul(q, Sqrt(m)), Sub(EOverOneMinus(m, E0), K)),
        Mul(Mul(Two, Pi), Cube(Sqrt(Mul(r, R)))))

Int2At(q, r, R, m) == I2(q, r, R, m, EllipK(m), EllipE(m))

Int2(q, r, R) == Int2At(q, r, R, Modulus(q, r, R))

\* -q*np.sqrt(m)*K0/(2*np.pi*R*np.sqrt(r*R))
Int3Regular(q, r, R, m, K0) ==
    Div(Mul(Mul(Neg(q), Sqrt(m)), K0),
        Mul(Mul(Mul(Two, Pi), R), Sqrt(Mul(r, R))))

\* np.heaviside(r-R, 0.5)-np.heaviside(R-r, 0.5)
StepCoefficient(r, R) ==
    Sub(Heaviside(Sub(r, R), Half), Heaviside(Sub(R, r), Half))

\* np.heaviside(R-r, 0.5)/R
StepConstant(r, R) == Div(Heaviside(Sub(R, r), Half), R)

\* beta = np.arcsin(q/np.sqrt(q**2 + (R-r)**2))
Beta(q, r, R) == ArcSin(Div(q, Sqrt(Add(Sq(q), Sq(Sub(R, r))))))

\* Z = E2-E1*K2/K1, Jacobi's zeta function
JacobiZeta(E1, E2, K1, K2) == Sub(E2, Div(Mul(E1, K2), K1))

\* lamb = K2/K1 +2*K0*Z/np.pi
HeumanLambda(K0, K1, K2, Z) ==
    Add(Div(K2, K1), Div(Mul(Mul(Two, K0), Z), Pi))

\* K1, E1, K2, E2 for the complementary parameter 1-m
LambdaAt(beta, mc, K0, K1, K2) ==
    HeumanLambda(K0, K1, K2, JacobiZeta(EllipE(mc), EllipEInc(beta, mc), K1, K2))

LambdaWith(beta, mc, K0) ==
    LambdaAt(beta, mc, K0, EllipK(mc), EllipKInc(beta, mc))

\* Heuman's lambda function, lines 191-202
Lambda(q, r, R, m) == LambdaWith(Beta(q, r, R), Sub(One, m), EllipK(m))

\* I3, lines 204-205
I3(q, r, R, m, K0, lamb) ==
    Add(Add(Int3Regular(q, r, R, m, K0),
            Div(Mul(StepCoefficient(r, R), lamb), Mul(Two, R))),
        StepConstant(r, R))

Int3At(q, r, R, m) == I3(q, r, R, m, EllipK(m), Lambda(q, r, R, m))

Int3(q, r, R) == Int3At(q, r, R, Modulus(q, r, R))

\* I4, lines 219-220
I4(q, r, R, m, K0, E0) ==
    Add(Div(Mul(Mul(Cube(Sqrt(m)), RadiiTerm(q, r, R)), E0),
            Mul(Mul(Mul(Mul(F(8), Pi), Cube(Sqrt(Mul(r, R)))), R), Sub(One, m))),
        Div(Mul(Sqrt(m), K0),
            Mul(Mul(Mul(Two, Pi), R), Sqrt(Mul(r, R)))))

Int4At(q, r, R, m) == I4(q, r, R, m, EllipK(m), EllipE(m))

Int4(q, r, R) == Int4At(q, r, R, Modulus(q, r, R))

\* I6, lines 234-235
I6(q, r, R, m, K0, E0) ==
    Div(Mul(Mul(q, Cube(Sqrt(m))),
            Add(Mul(F(3), E0),
                Div(Mul(Mul(m, RadiiTerm(q, r, R)),
                        Sub(EOverOneMinus(m, E0), Div(K0, F(4)))),
                    Mul(r, R)))),
        Mul(Mul(Mul(Mul(F(8), Pi), Cube(Sqrt(Mul(r, R)))), R), Sub(One, m)))

Int6At(q, r, R, m) == I6(q, r, R, m, EllipK(m), EllipE(m))

Int6(q, r, R) == Int6At(q, r, R, Modulus(q, r, R))

\* young/(2*(1+poisson))
G(poisson, young) == Div(young, Mul(Two, Add(One, poisson)))

\* compaction.Cm: the uniaxial compaction coefficient
\* (1+poisson)*(1-2*poisson)/(young*(1-poisson))
Cm(poisson, young) ==
    Div(Mul(Add(One, poisson), Sub(One, Mul(Two, poisson))),
        Mul(young, Sub(One, poisson)))

----------------------------------------------------------------------------
\* Arrays are sequences of numbers; numpy works on them element by element.

Map1(Op(_), a) == [i \in 1..Len(a) |-> Op(a[i])]
Map2(Op(_, _), a, b) == [i \in 1..Len(a) |-> Op(a[i], b[i])]

\* array - scalar and array * scalar
SubScalarOfFirst(a, c) == [i \in 1..Len(a) |-> Sub(a[1], c)]

SubScalar(a, c) == [i \in 1..Len(a) |-> Sub(a[i], c)]
MulScalar(a, c) == [i \in 1..Len(a) |-> Mul(a[i], c)]

\* 3 - 4*poisson
ImageFactor(poisson) == Sub(F(3), Mul(F(4), poisson))

\* r = np.sqrt(Y**2 + X**2 + Z**2)
RadiusWithoutX(Y, X, Z) == Sqrt(Add(Sq(Y), Sq(Z)))

Radius(Y, X, Z) == Sqrt(Add(Add(Sq(Y), Sq(X)), Sq(Z)))

\* Z2 = Z + 2*D
MirrorDepth(Z, D) == Add(Z, Mul(Two, D))

\* One point of lines 55-61: Y, X, Z, r and Z2 from the point (y, x, z)
ShiftPoint(y, x, z, disk) ==
    LET Y == Sub(y, disk[1])
        X == Sub(x, disk[2])
        Z == Sub(z, disk[3])
    IN  [Y |-> Y, X |-> X, Z |-> Z,
         r |-> Radius(Y, X, Z),
         Z2 |-> MirrorDepth(Z, disk[3])]

\* lines 64-68 with the pressure taken in absolute value
UrPointAbsPressure(Z, r, Z2, z, R, pressure, poisson) ==
    Mul(Neg(Abs(pressure)),
        Sub(Add(Int1(Abs(Z), r, R),
                Mul(ImageFactor(poisson), Int1(Z2, r, R))),
            Mul(Mul(Two, z), Int2(Z2, r, R))))

\* lines 64-68 with the shifted Z in the third term
UrPointShiftedZ(Z, r, Z2, z, R, pressure, poisson) ==
    Mul(Neg(pressure),
        Sub(Add(Int1(Abs(Z), r, R),
                Mul(ImageFactor(poisson), Int1(Z2, r, R))),
            Mul(Mul(Two, Z), Int2(Z2, r, R))))

\* One point of lines 64-68, before the scaling of line 77
UrPoint(Z, r, Z2, z, R, pressure, poisson) ==
    Mul(Neg(pressure),
        Sub(Add(Int1(Abs(Z), r, R),
                Mul(ImageFactor(poisson), Int1(Z2, r, R))),
            Mul(Mul(Two, z), Int2(Z2, r, R))))

\* One point of lines 71-75, before the scaling of line 78
UzPoint(Z, r, Z2, z, R, pressure, poisson) ==
    Mul(pressure,
        Sub(Sub(Mul(Sign(Z), Int3(Abs(Z), r, R)),
                Mul(ImageFactor(poisson), Int3(Z2, r, R))),
            Mul(Mul(Two, z), Int4(Z2, r, R))))

\* One point of lines 126-133
SrPoint(Z, r, Z2, z, R, pressure, poisson) ==
    Mul(pressure,
        Sub(Add(Sub(Sub(Add(Int4(Abs(Z), r, R),
                            Mul(F(3), Int4(Z2, r, R))),
                        Mul(Mul(Two, z), Int6(Z2, r, R))),
                    Div(Int1(Abs(Z), r, R), r)),
                Div(Mul(ImageFactor(poisson), Int1(Z2, r, R)), r)),
            Div(Mul(Mul(Two, z), Int2(Z2, r, R)), r)))

\* One point of lines 136-141
StPoint(Z, r, Z2, z, R, pressure, poisson) ==
    Mul(pressure,
        Sub(Add(Add(Mul(Mul(F(4), poisson), Int4(Z2, r, R)),
                    Div(Int1(Abs(Z), r, R), r)),
                Div(Mul(ImageFactor(poisson), Int1(Z2, r, R)), r)),
            Div(Mul(Mul(Two, z), Int2(Z2, r, R)), r)))

\* One point of lines 144-148
SzPoint(Z, r, Z2, z, R, pressure, poisson) ==
    Mul(Neg(pressure),
        Add(Add(Neg(Int4(Abs(Z), r, R)), Int4(Z2, r, R)),
            Mul(Mul(Two, z), Int6(Z2, r, R))))

\* Cm(poisson, young)*R*h/2
DisplacementScale(disk, poisson, young) ==
    Div(Mul(Mul(Cm(poisson, young), disk[4]), disk[5]), Two)

\* aux = G(poisson,young)*Cm(poisson,young)*R*h
StressScale(disk, poisson, young) ==
    Mul(Mul(Mul(G(poisson, young), Cm(poisson, young)), disk[4]), disk[5])

\* The two entry points as functions of their (valid) arguments: rows is
\* <<ys, xs, zs>>, the three rows of the coordinate array.
Shifted(rows, disk) ==
    [i \in 1..Len(rows[1]) |-> ShiftPoint(rows[1][i], rows[2][i], rows[3][i], disk)]

Geertsma_disk_displacement(rows, disk, pressure, poisson, young) ==
    LET s == Shifted(rows, disk)
        c == DisplacementScale(disk, poisson, young)
    IN  << [i \in 1..Len(s) |->
              Mul(UrPoint(s[i].Z, s[i].r, s[i].Z2, rows[3][i], disk[4], pressure, poisson), c)],
           [i \in 1..Len(s) |->
              Mul(UzPoint(s[i].Z, s[i].r, s[i].Z2, rows[3][i], disk[4], pressure, poisson), c)] >>

Geertsma_disk_stress(rows, disk, pressure, poisson, young) ==
    LET s == Shifted(rows, disk)
        aux == StressScale(disk, poisson, young)
    IN  << [i \in 1..Len(s) |->
              Mul(SrPoint(s[i].Z, s[i].r, s[i].Z2, rows[3][i], disk[4], pressure, poisson), aux)],
           [i \in 1..Len(s) |->
              Mul(StPoint(s[i].Z, s[i].r, s[i].Z2, rows[3][i], disk[4], pressure, poisson), aux)],
           [i \in 1..Len(s) |->
              Mul(SzPoint(s[i].Z, s[i].r, s[i].Z2, rows[3][i], disk[4], pressure, poisson), aux)] >>

----------------------------------------------------------------------------
\* The calls, statement by statement.
\*
\* heap is the memory of arrays: the rows of the caller's coordinate array
\* are heap[1 .. args.nrows]; a numpy operation on arrays stores its result
\* in a new array, an augmented assignment (ur *= c) stores into the array
\* its target names.  env gives the array each local name is bound to (0:
\* unbound); earlier says that a call has been completed before.  The
\* other arguments are in args: the disk list, and pressure, poisson and
\* young as [scalar |-> np.isscalar(x), v |-> the number].

VARIABLES pc, fn, args, coords0, heap, env, ret, nkernel, earlier

vars == <<pc, fn, args, coords0, heap, env, ret, nkernel, earlier>>

NoEnv == [Y |-> 0, X |-> 0, Z |-> 0, r |-> 0, Z2 |-> 0, o1 |-> 0, o2 |-> 0, o3 |-> 0]
NoRet == [kind |-> "none", fn |-> "none", failed |-> 0, out |-> << >>]

Functions == {"displacement", "stress"}

\* a - c for the array at src: the result is a new array
ArrayMinusScalarInPlace(h, src, c) ==
    [heap |-> [h EXCEPT ![src] = SubScalar(h[src], c)], addr |-> src]

ArrayMinusScalar(h, src, c) ==
    [heap |-> Append(h, SubScalar(h[src], c)), addr |-> Len(h) + 1]

\* a *= c for the array at addr
InPlaceMul(h, addr, c) == [h EXCEPT ![addr] = MulScalar(h[addr], c)]

\* the asserts without the last one
FirstFailedAssertButLast(a) ==
    IF Len(a.disk) # 5 THEN 1
    ELSE IF a.nrows # 3 THEN 2
    ELSE IF ~a.pressure.scalar THEN 3
    ELSE IF ~a.poisson.scalar THEN 4
    ELSE 0

\* The asserts of lines 47-51 (109-113): the number of the first that
\* fails, 0 when all pass.
FirstFailedAssert(a) ==
    IF Len(a.disk) # 5 THEN 1
    ELSE IF a.nrows # 3 THEN 2
    ELSE IF ~a.pressure.scalar THEN 3
    ELSE IF ~a.poisson.scalar THEN 4
    ELSE IF ~a.young.scalar THEN 5
    ELSE 0

\* kernel calls of one entry point (each call takes whole arrays)
KernelCalls(f) == IF f = "displacement" THEN 6 ELSE 13

Call(f) ==
    /\ pc = "idle"
    /\ pc' = "assert"
    /\ fn' = f
    /\ ret' = NoRet
    /\ nkernel' = 0
    /\ UNCHANGED <<args, coords0, heap, env, earlier>>

Validate ==
    /\ pc = "assert"
    /\ pc' = IF FirstFailedAssert(args) # 0 THEN "raise" ELSE "shift"
    /\ UNCHANGED <<fn, args, coords0, heap, env, ret, nkernel, earlier>>

\* the AssertionError leaves the function
Raise ==
    /\ pc = "raise"
    /\ pc' = "idle"
    /\ ret' = [kind |-> "AssertionError", fn |-> fn,
               failed |-> FirstFailedAssert(args), out |-> << >>]
    /\ earlier' = TRUE
    /\ UNCHANGED <<fn, args, coords0, heap, env, nkernel>>

\* lines 53-61 (115-123)
Shift ==
    /\ pc = "shift"
    /\ LET D  == args.disk[3]
           sY == ArrayMinusScalar(heap, 1, args.disk[1])
           sX == ArrayMinusScalar(sY.heap, 2, args.disk[2])
           sZ == ArrayMinusScalar(sX.heap, 3, D)
           h  == sZ.heap
           Y  == h[sY.addr]
           X  == h[sX.addr]
           Z  == h[sZ.addr]
           r  == [i \in 1..Len(Z) |-> Radius(Y[i], X[i], Z[i])]
           Z2 == [i \in 1..Len(Z) |-> MirrorDepth(Z[i], D)]
       IN  /\ heap' = h \o <<r, Z2>>
           /\ env' = [env EXCEPT !.Y = sY.addr, !.X = sX.addr, !.Z = sZ.addr,
                                 !.r = Len(h) + 1, !.Z2 = Len(h) + 2]
    /\ pc' = "assemble"
    /\ UNCHANGED <<fn, args, coords0, ret, nkernel, earlier>>

\* lines 63-75 (125-148)
Assemble ==
    /\ pc = "assemble"
    /\ LET Z  == heap[env.Z]
           r  == heap[env.r]
           Z2 == heap[env.Z2]
           z  == heap[3]
           R  == args.disk[4]
           P  == args.pressure.v
           nu == args.poisson.v
           n  == Len(heap)
       IN  IF fn = "displacement"
           THEN /\ heap' = heap \o
                     << [i \in 1..Len(Z) |-> UrPoint(Z[i], r[i], Z2[i], z[i], R, P, nu)],
                        [i \in 1..Len(Z) |-> UzPoint(Z[i], r[i], Z2[i], z[i], R, P, nu)] >>
                /\ env' = [env EXCEPT !.o1 = n + 1, !.o2 = n + 2]
           ELSE /\ heap' = heap \o
                     << [i \in 1..Len(Z) |-> SrPoint(Z[i], r[i], Z2[i], z[i], R, P, nu)],
                        [i \in 1..Len(Z) |-> StPoint(Z[i], r[i], Z2[i], z[i], R, P, nu)],
                        [i \in 1..Len(Z) |-> SzPoint(Z[i], r[i], Z2[i], z[i], R, P, nu)] >>
                /\ env' = [env EXCEPT !.o1 = n + 1, !.o2 = n + 2, !.o3 = n + 3]
    /\ nkernel' = nkernel + KernelCalls(fn)
    /\ pc' = "scale"
    /\ UNCHANGED <<fn, args, coords0, ret, earlier>>

\* lines 77-78 (150-154)
Scale ==
    /\ pc = "scale"
    /\ heap' =
         IF fn = "displacement"
         THEN LET c == DisplacementScale(args.disk, args.poisson.v, args.young.v)
              IN  InPlaceMul(InPlaceMul(heap, env.o1, c), env.o2, c)
         ELSE LET aux == StressScale(args.disk, args.poisson.v, args.young.v)
              IN  InPlaceMul(InPlaceMul(InPlaceMul(heap, env.o1, aux), env.o2, aux),
                             env.o3, aux)
    /\ pc' = "return"
    /\ UNCHANGED <<fn, args, coords0, env, ret, nkernel, earlier>>

\* line 80 (156): the outputs go to the caller, the locals are dropped
Return ==
    /\ pc = "return"
    /\ LET out == IF fn = "displacement"
                  THEN <<heap[env.o1], heap[env.o2]>>
                  ELSE <<heap[env.o1], heap[env.o2], heap[env.o3]>>
       IN  ret' = [kind |-> "value", fn |-> fn, failed |-> 0, out |-> out]
    /\ heap' = SubSeq(heap, 1, args.nrows)
    /\ env' = NoEnv
    /\ pc' = "idle"
    /\ earlier' = TRUE
    /\ UNCHANGED <<fn, args, coords0, nkernel>>

----------------------------------------------------------------------------
\* The arguments the calls are made with

Q(n) == Round(n, -2)                  \* n / 4
Scalar(x) == [scalar |-> TRUE, v |-> x]
NonScalar(x) == [scalar |-> FALSE, v |-> x]

\* single points, in quarters: on and off the axis, at the surface, at the
\* depth of the disk, next to its rim
PointsY == {-4, 0, 4, 8}
PointsX == {0, 4}
PointsZ == {0, 1, 4, 5, 8}

\* disks (y0, x0, D, R, h), in quarters
Disks == { <<Q(0), Q(0), Q(d), Q(R), Q(4)>> : d \in {0, 1, 4}, R \in {4, 8} }

SinglePointInputs ==
    { [rows |-> << <<Q(y)>>, <<Q(x)>>, <<Q(z)>> >>, disk |-> d,
       pressure |-> Scalar(F(m[1])), poisson |-> Scalar(Q(m[2])), young |-> Scalar(F(1))] :
         y \in PointsY, x \in PointsX, z \in PointsZ, d \in Disks,
         m \in {<<-1, 0>>, <<2, 1>>} }

\* arrays of two points: the same distance from the axis at different
\* azimuths, and points that differ
PointPairs ==
    { << <<4, 0, 0>>, <<0, 4, 0>> >>, << <<-4, 0, 4>>, <<0, 4, 4>> >>,
      << <<8, 0, 4>>, <<0, 8, 4>> >>, << <<0, -4, 8>>, <<4, 0, 8>> >>,
      << <<4, 4, 0>>, <<-4, 4, 0>> >>, << <<0, 0, 0>>, <<4, 0, 4>> >>,
      << <<8, 4, 1>>, <<4, 8, 5>> >>, << <<0, 0, 4>>, <<8, 0, 0>> >>,
      << <<12, 16, 0>>, <<20, 0, 0>> >>, << <<4, 0, 4>>, <<0, -4, 4>> >> }

TwoPointInputs ==
    { [rows |-> << <<Q(pp[1][1]), Q(pp[2][1])>>, <<Q(pp[1][2]), Q(pp[2][2])>>,
                   <<Q(pp[1][3]), Q(pp[2][3])>> >>,
       disk |-> <<Q(y0), Q(0), Q(4), Q(R), Q(2)>>,
       pressure |-> Scalar(F(p)), poisson |-> Scalar(Q(1)), young |-> Scalar(F(2))] :
         pp \in PointPairs, y0 \in {0}, R \in {4, 8}, p \in {-1, 0, 3} }

\* arguments of every shape: 4 to 6 disk values, 2 to 4 rows, scalars or not
ShapeInputs ==
    { [rows |-> [i \in 1..nr |-> <<Q(4 * i)>>],
       disk |-> [i \in 1..nd |-> Q(4)],
       pressure |-> [scalar |-> sp, v |-> F(-1)],
       poisson  |-> [scalar |-> sn, v |-> Q(1)],
       young    |-> [scalar |-> sy, v |-> F(1)]] :
         nd \in {4, 5, 6}, nr \in {2, 3, 4}, sp \in BOOLEAN, sn \in BOOLEAN, sy \in BOOLEAN }

Inputs == SinglePointInputs \cup TwoPointInputs \cup ShapeInputs

Init ==
    /\ \E inp \in Inputs :
         /\ heap = inp.rows
         /\ coords0 = inp.rows
         /\ args = [disk |-> inp.disk, nrows |-> Len(inp.rows),
                    pressure |-> inp.pressure, poisson |-> inp.poisson,
                    young |-> inp.young]
    /\ pc = "idle"
    /\ fn = "none"
    /\ env = NoEnv
    /\ ret = NoRet
    /\ nkernel = 0
    /\ earlier = FALSE

Next ==
    \/ \E f \in Functions : Call(f)
    \/ Validate
    \/ Raise
    \/ Shift
    \/ Assemble
    \/ Scale
    \/ Return

Spec == Init /\ [][Next]_vars

----------------------------------------------------------------------------
\* Properties

Valid == FirstFailedAssert(args) = 0
N == Len(coords0[1])
Returned == pc = "idle" /\ ret.kind = "value"

\* the entry point f applied to the caller's arguments with pressure p and
\* coordinate rows rows
Apply(f, rows, p) ==
    IF f = "displacement"
    THEN Geertsma_disk_displacement(rows, args.disk, p, args.poisson.v, args.young.v)
    ELSE Geertsma_disk_stress(rows, args.disk, p, args.poisson.v, args.young.v)

NegAll(out) == [k \in 1..Len(out) |-> Map1(Neg, out[k])]

\* the shifted quantities of point i of the caller's coordinates
Geo(i) == ShiftPoint(coords0[1][i], coords0[2][i], coords0[3][i], args.disk)

\* x * x + y * y of two finite numbers, exactly (no rounding)
ExactSumSq(x, y) ==
    LET m == IF x.e < y.e THEN x.e ELSE y.e
    IN  Norm(x.n * x.n * Pow2(2 * (x.e - m)) + y.n * y.n * Pow2(2 * (y.e - m)), 2 * m)

\* x - y of two finite numbers, exactly
ExactSub(x, y) ==
    LET m == IF x.e < y.e THEN x.e ELSE y.e
    IN  Norm(x.n * Pow2(x.e - m) - y.n * Pow2(y.e - m), m)

\* square of the horizontal distance of point i from the axis of the disk
HorizontalSq(i) ==
    ExactSumSq(ExactSub(coords0[1][i], args.disk[1]),
               ExactSub(coords0[2][i], args.disk[2]))

\* C1: a call raises the validation error exactly when the disk has not 5
\* values, the coordinates have not 3 rows or one of pressure, poisson,
\* young is not a scalar; when it raises, nothing has been shifted, no
\* kernel has been evaluated and no output is returned.
C1_ValidationFirst ==
    /\ pc = "raise" =>
         /\ (Len(args.disk) # 5 \/ args.nrows # 3 \/ ~args.pressure.scalar
               \/ ~args.poisson.scalar \/ ~args.young.scalar)
         /\ env = NoEnv /\ Len(heap) = args.nrows /\ nkernel = 0 /\ ret = NoRet
    /\ ret.kind = "AssertionError" => ret.out = << >> /\ nkernel = 0 /\ env = NoEnv
    /\ pc \in {"shift", "assemble", "scale", "return"} \/ ret.kind = "value" =>
         /\ Len(args.disk) = 5 /\ args.nrows = 3
         /\ args.pressure.scalar /\ args.poisson.scalar /\ args.young.scalar

C1_Witness ==
    /\ pc = "idle" /\ ret.kind = "AssertionError" /\ ret.failed = 5
    /\ Len(args.disk) = 5 /\ args.nrows = 3 /\ ~args.young.scalar

\* C2: every output of a call is, point by point, the negation of the same
\* output computed with the pressure negated.
C2_PressureNegation ==
    Returned => ret.out = NegAll(Apply(ret.fn, coords0, Neg(args.pressure.v)))

C2_Witness ==
    /\ Returned /\ ret.fn = "stress" /\ args.pressure.v = F(-1)
    /\ \A k \in 1..3 : IsFin(ret.out[k][1]) /\ ret.out[k][1].n # 0

\* C3: for every kernel call with R > 0, r >= 0, q >= 0 the modulus is in
\* [0, 1], and it is 1 exactly when q = 0 and r = R.
ModulusBound(q, r, R) ==
    LET m == Modulus(q, r, R)
    IN  (Lt(Zero, R) /\ Le(Zero, r) /\ Le(Zero, q)) =>
           /\ Le(Zero, m) /\ Le(m, One)
           /\ (m = One) <=> (IsZero(q) /\ r = R)

C3_ModulusBound ==
    pc \in {"assemble", "scale", "return"} =>
       \A i \in 1..N :
          /\ ModulusBound(Abs(heap[env.Z][i]), heap[env.r][i], args.disk[4])
          /\ ModulusBound(heap[env.Z2][i], heap[env.r][i], args.disk[4])

\* C4: two points of one call with the same z and the same horizontal
\* distance from the axis of the disk get the same ur, and a point gets the
\* ur of the point a quarter turn further round the axis.
QuarterTurn(rows, disk) ==
    << [i \in 1..Len(rows[1]) |-> ExactSub(disk[1], ExactSub(rows[2][i], disk[2]))],
       [i \in 1..Len(rows[1]) |-> ExactSub(ExactSub(rows[1][i], disk[1]), Neg(disk[2]))],
       rows[3] >>

OnePoint(rows, i) == [k \in 1..3 |-> <<rows[k][i]>>]
Reversed(a) == [i \in 1..Len(a) |-> a[Len(a) + 1 - i]]

C5_PointwiseIndependence ==
    Returned =>
       /\ \A k \in 1..Len(ret.out) : Len(ret.out[k]) = N
       /\ \A i \in 1..N : \A k \in 1..Len(ret.out) :
             ret.out[k][i] = Apply(ret.fn, OnePoint(coords0, i), args.pressure.v)[k][1]
       /\ [k \in 1..Len(ret.out) |-> Reversed(ret.out[k])]
             = Apply(ret.fn, [k \in 1..3 |-> Reversed(coords0[k])], args.pressure.v)

C5_Witness ==
    /\ Returned /\ ret.fn = "stress" /\ N = 2
    /\ \A k \in 1..3 : IsFin(ret.out[k][1]) /\ IsFin(ret.out[k][2])
                          /\ ret.out[k][1] # ret.out[k][2]

\* C6: a call leaves its arguments as they were, and what it returns is
\* determined by them alone, whatever calls were made before.
C6_ArgumentsAsGiven ==
    /\ SubSeq(heap, 1, args.nrows) = coords0
    /\ pc = "idle" => heap = coords0 /\ env = NoEnv
    /\ Returned => ret.out = Apply(ret.fn, coords0, args.pressure.v)

C6_Purity == []C6_ArgumentsAsGiven /\ [][args' = args]_vars

\* a call returns after an earlier call has returned
C6_Witness ==
    /\ pc = "return" /\ earlier /\ fn = "displacement" /\ N = 2
    /\ SubSeq(heap, 1, 3) = coords0
    /\ IsFin(heap[env.o1][1]) /\ heap[env.o1][1].n # 0
    /\ <<heap[env.o1], heap[env.o2]>> = Apply(fn, coords0, args.pressure.v)

\* C7: with arguments that pass the validation, at a point with r = 0 or
\* with a kernel modulus of 1 the call returns (it does not raise) and each
\* output is inf or nan at that point.
Degenerate(i) ==
    LET g == Geo(i)
    IN  \/ IsZero(g.r)
        \/ Modulus(Abs(g.Z), g.r, args.disk[4]) = One
        \/ Modulus(g.Z2, g.r, args.disk[4]) = One

C7_DegeneraciesPropagate ==
    /\ (Valid /\ \E i \in 1..N : Degenerate(i)) =>
          pc # "raise" /\ ret.kind # "AssertionError"
    /\ Returned =>
          \A i \in 1..N : Degenerate(i) =>
             \A k \in 1..Len(ret.out) : ~IsFin(ret.out[k][i])

C7_Witness ==
    /\ Returned /\ ret.fn = "displacement" /\ N = 1
    /\ IsZero(Geo(1).Z) /\ Geo(1).r = args.disk[4]
    /\ IsInf(ret.out[1][1]) /\ IsNaN(ret.out[2][1])

C7_WitnessAxis ==
    /\ Returned /\ ret.fn = "stress" /\ N = 1
    /\ IsZero(Geo(1).r)
    /\ \A k \in 1..3 : IsNaN(ret.out[k][1])

\* C8: in Int3 the coefficient of lambda/(2R) is +1 for r > R, -1 for
\* r < R and 0 for r = R, the added constant is 0, 1/R and 0.5/R, and at
\* r = R Int3 is the regular term plus 0.5/R.
Int3ThreeWay(q, r, R) ==
    LET m    == Modulus(q, r, R)
        reg  == Int3Regular(q, r, R, m, EllipK(m))
        lamb == Lambda(q, r, R, m)
    IN  IF Lt(R, r) THEN Add(reg, Div(lamb, Mul(Two, R)))
        ELSE IF Lt(r, R) THEN Add(Sub(reg, Div(lamb, Mul(Two, R))), Div(One, R))
        ELSE Add(reg, Div(Half, R))

StepSelection(q, r, R) ==
    /\ Lt(R, r) => StepCoefficient(r, R) = One /\ StepConstant(r, R) = Zero
    /\ Lt(r, R) => StepCoefficient(r, R) = Neg(One) /\ StepConstant(r, R) = Div(One, R)
    /\ r = R => StepCoefficient(r, R) = Zero /\ StepConstant(r, R) = Div(Half, R)
    /\ Int3(q, r, R) = Int3ThreeWay(q, r, R)

C8_StepSelection ==
    (pc = "assemble" /\ fn = "displacement") =>
       \A i \in 1..N :
          /\ StepSelection(Abs(heap[env.Z][i]), heap[env.r][i], args.disk[4])
          /\ StepSelection(heap[env.Z2][i], heap[env.r][i], args.disk[4])

\* C9: the third term of ur and of uz is 2*z times Int2, Int4 with z the
\* coordinate as given, every kernel argument being the shifted |Z|, Z2 and
\* r; so at z = 0 the third term contributes nothing.
UrFirstTwo(g, R, nu) ==
    Add(Int1(Abs(g.Z), g.r, R), Mul(ImageFactor(nu), Int1(g.Z2, g.r, R)))

UzFirstTwo(g, R, nu) ==
    Sub(Mul(Sign(g.Z), Int3(Abs(g.Z), g.r, R)),
        Mul(ImageFactor(nu), Int3(g.Z2, g.r, R)))

ThirdTermUsesGivenZ(i) ==
    LET g  == Geo(i)
        z  == coords0[3][i]
        R  == args.disk[4]
        P  == args.pressure.v
        nu == args.poisson.v
    IN  /\ heap[env.o1][i] =
              Mul(Neg(P), Sub(UrFirstTwo(g, R, nu), Mul(Mul(Two, z), Int2(g.Z2, g.r, R))))
        /\ heap[env.o2][i] =
              Mul(P, Sub(UzFirstTwo(g, R, nu), Mul(Mul(Two, z), Int4(g.Z2, g.r, R))))

UrWithoutThird(i) ==
    heap[env.o1][i] =
       Mul(Neg(args.pressure.v), UrFirstTwo(Geo(i), args.disk[4], args.poisson.v))

UzWithoutThird(i) ==
    heap[env.o2][i] =
       Mul(args.pressure.v, UzFirstTwo(Geo(i), args.disk[4], args.poisson.v))

\* the claim as stated: at every point with z = 0
C9_ImageTermsVanishAtSurface ==
    (pc = "scale" /\ fn = "displacement") =>
       \A i \in 1..N :
          /\ ThirdTermUsesGivenZ(i)
          /\ IsZero(coords0[3][i]) => UrWithoutThird(i) /\ UzWithoutThird(i)

\* C9 as amended: at every point with z = 0 where the kernel of the third
\* term is finite
C9_ImageTermsVanishWhereFinite ==
    (pc = "scale" /\ fn = "displacement") =>
       \A i \in 1..N :
          /\ ThirdTermUsesGivenZ(i)
          /\ (IsZero(coords0[3][i]) /\ IsFin(Int2(Geo(i).Z2, Geo(i).r, args.disk[4])))
                => UrWithoutThird(i)
          /\ (IsZero(coords0[3][i]) /\ IsFin(Int4(Geo(i).Z2, Geo(i).r, args.disk[4])))
                => UzWithoutThird(i)

C9_Witness ==
    /\ pc = "scale" /\ fn = "displacement" /\ N = 1
    /\ IsZero(coords0[3][1]) /\ ~IsZero(Geo(1).Z)
    /\ IsFin(Int2(Geo(1).Z2, Geo(1).r, args.disk[4]))
    /\ ~IsZero(Int2(Geo(1).Z2, Geo(1).r, args.disk[4]))
    /\ IsFin(heap[env.o1][1]) /\ ~IsZero(heap[env.o1][1])
    /\ IsFin(heap[env.o2][1]) /\ ~IsZero(heap[env.o2][1])

\* C10: with D > 0 and R > 0, at every point with z >= 0 the image terms
\* are called with Z2 > 0 and have a modulus below 1, and a direct term has
\* modulus 1 only at z = D at the horizontal distance R from the axis.
C10_OnlyDirectTermsSingular ==
    (pc \in {"assemble", "scale", "return"}
       /\ Lt(Zero, args.disk[3]) /\ Lt(Zero, args.disk[4])) =>
       \A i \in 1..N : Le(Zero, coords0[3][i]) =>
          /\ Lt(Zero, heap[env.Z2][i])
          /\ Lt(Modulus(heap[env.Z2][i], heap[env.r][i], args.disk[4]), One)
          /\ Modulus(Abs(heap[env.Z][i]), heap[env.r][i], args.disk[4]) = One =>
                /\ coords0[3][i] = args.disk[3]
                /\ HorizontalSq(i) = ExactSumSq(args.disk[4], Zero)

====
